---- MODULE Spec2Model ----
(***************************************************************************)
(* dbmigrate: the migration controller (dbmigrate/src/cmd.rs) driving the  *)
(* version register of a Driver (dbmigrate-lib/src/drivers/mysql.rs) over  *)
(* a loaded collection of migrations (dbmigrate-lib/src/files.rs).         *)
(*                                                                         *)
(* One command invocation is one process of Procs.  Every call of          *)
(* Driver::migrate is one step; the outcome of the call (which of its      *)
(* fallible operations fails, if any) is chosen by the environment.        *)
(***************************************************************************)
EXTENDS Integers, Sequences, FiniteSets, TLC

\* Largest number of migrations in the loaded collection.
MaxN == 3

\* Number of command invocations (operating-system processes) at hand.
NumProcs == 2

Procs == 1..NumProcs

VARIABLES
    migration_files, \* the loaded collection: number -> [name, up, down]
    current,         \* the register: __dbmigrate_table.current where id = 1
    pc,              \* per invocation: position in the command's code
    cmd,             \* per invocation: the command that was invoked
    start,           \* per invocation: the local `current` read at the start
    todo,            \* per invocation: what is left of the loop's iterator
    calls,           \* per invocation: the Driver::migrate calls made so far
    result,          \* per invocation: "none", "Ok", "Err" or "Panic"
    out              \* per invocation: what status printed

vars == <<migration_files, current, pc, cmd, start, todo, calls, result, out>>

----------------------------------------------------------------------------
\* files.rs: the collection and its files

\* The text of the up or down file of migration n.
Content(n, direction) == [migration |-> n, side |-> direction]

Name(n) == <<"name", n>>

\* cmd.rs reads migration.up / migration.down as a MigrationFile.
MigrationFile(n, direction) ==
    [content |-> Content(n, direction), direction |-> direction,
     number |-> n, name |-> Name(n)]

Migration(n) ==
    [name |-> Name(n), up |-> MigrationFile(n, "Up"),
     down |-> MigrationFile(n, "Down")]

\* What read_migration_files returns on success: the keys are exactly 1..n.
Migrations(n) == [k \in 1..n |-> Migration(k)]

keys(files) == DOMAIN files

N == Cardinality(keys(migration_files))

RECURSIVE Ascending(_)
\* BTreeMap iteration order: the keys, smallest first.
Ascending(S) ==
    IF S = {} THEN <<>>
    ELSE LET m == CHOOSE x \in S : \A y \in S : x <= y
         IN <<m>> \o Ascending(S \ {m})

RECURSIVE Descending(_)
\* sort_by(|a, b| b.cmp(a)): largest first.
Descending(S) ==
    IF S = {} THEN <<>>
    ELSE LET m == CHOOSE x \in S : \A y \in S : x >= y
         IN <<m>> \o Descending(S \ {m})

\* keys().max().unwrap(), on a map that is not empty.
MaxKey(files) ==
    CHOOSE x \in keys(files) : \A y \in keys(files) : x >= y

----------------------------------------------------------------------------
\* drivers/mysql.rs: Driver::migrate

\* The operation of Mysql::migrate that fails in a call, or "none".
Faults == {"none", "get_conn", "query", "set_current_number"}

Mysql_migrate_early_set(register, number, fault) ==
    IF fault = "get_conn"
    THEN [ret |-> "Err", executed |-> FALSE, current |-> register]
    ELSE IF fault = "set_current_number"
    THEN [ret |-> "Panic", executed |-> FALSE, current |-> register]
    ELSE IF fault = "query"
    THEN [ret |-> "Err", executed |-> FALSE, current |-> number]
    ELSE [ret |-> "Ok", executed |-> TRUE, current |-> number]

\* get_conn()?; query(migration)?; set_current_number(number) (which unwraps).
\* ret is what the call returns, executed whether the script ran successfully,
\* current the register after the call.
Mysql_migrate(register, number, fault) ==
    IF fault = "get_conn"
    THEN [ret |-> "Err", executed |-> FALSE, current |-> register]
    ELSE IF fault = "query"
    THEN [ret |-> "Err", executed |-> FALSE, current |-> register]
    ELSE IF fault = "set_current_number"
    THEN [ret |-> "Panic", executed |-> TRUE, current |-> register]
    ELSE [ret |-> "Ok", executed |-> TRUE, current |-> number]

----------------------------------------------------------------------------
\* cmd.rs: migrate

ResultingNumber_same(mig_file) == mig_file.number

\* The version the register is to hold after the file has run.
ResultingNumber(mig_file) ==
    IF mig_file.direction = "Up" THEN mig_file.number
    ELSE mig_file.number - 1

\* The record of one driver.migrate(content, number) call and its outcome.
Call(mig_file, fault, register) ==
    LET number == ResultingNumber(mig_file)
        r == Mysql_migrate(register, number, fault)
    IN [content |-> mig_file.content, number |-> number, fault |-> fault,
        executed |-> r.executed, ret |-> r.ret, current |-> r.current]

\* migrate(driver, mig_file): one Driver::migrate call by invocation p.
migrate(p, mig_file, fault) ==
    LET c == Call(mig_file, fault, current)
    IN /\ current' = c.current
       /\ calls' = [calls EXCEPT ![p] = Append(@, [x \in DOMAIN c \ {"current"} |-> c[x]])]

LastCall(p) == calls'[p][Len(calls'[p])]

EarlyReturn_never(ret) == FALSE

\* The ? after migrate(..): an Err returns from the command at once.
EarlyReturn(ret) == ret = "Err"

\* How the command goes on after a migrate call that returned ret: it stops
\* with that result on a panic or an early return, and otherwise continues
\* at pc next, or returns Ok when nothing is left (next = "done").
Continue(p, ret, next, rest) ==
    IF ret = "Panic" \/ EarlyReturn(ret)
    THEN /\ pc' = [pc EXCEPT ![p] = "done"]
         /\ result' = [result EXCEPT ![p] = ret]
         /\ todo' = [todo EXCEPT ![p] = <<>>]
    ELSE /\ pc' = [pc EXCEPT ![p] = next]
         /\ result' = [result EXCEPT ![p] = IF next = "done" THEN "Ok" ELSE "none"]
         /\ todo' = [todo EXCEPT ![p] = rest]

\* The command line invokes a command: driver.get_current_number() is the
\* first thing each of them does.
Invoke(p, command) ==
    /\ pc[p] = "idle"
    /\ cmd' = [cmd EXCEPT ![p] = command]
    /\ start' = [start EXCEPT ![p] = current]
    /\ calls' = [calls EXCEPT ![p] = <<>>]

\* The command returns (or panics) before any migrate call.
Return(p, ret) ==
    /\ pc' = [pc EXCEPT ![p] = "done"]
    /\ result' = [result EXCEPT ![p] = ret]
    /\ todo' = [todo EXCEPT ![p] = <<>>]

----------------------------------------------------------------------------
\* cmd.rs: the commands

\* status: the report, one line per migration in ascending order.
StatusReport(files, cur) ==
    (IF cur = 0 THEN <<"No migration has been ran">> ELSE <<>>) \o
    [i \in 1..Len(Ascending(keys(files))) |->
        LET number == Ascending(keys(files))[i]
        IN [number |-> files[number].up.number,
            name |-> files[number].up.name,
            current |-> number = cur]]

status(p) ==
    /\ Invoke(p, "status")
    /\ out' = [out EXCEPT ![p] = StatusReport(migration_files, current)]
    /\ Return(p, "Ok")
    /\ UNCHANGED <<migration_files, current>>

UpSelects_from(number, cur) == number >= cur

\* up's filter inside the loop: number > &current.
UpSelects(number, cur) == number > cur

\* up, to the start of its loop.
up(p) ==
    /\ Invoke(p, "up")
    /\ out' = [out EXCEPT ![p] = <<>>]
    /\ IF keys(migration_files) = {}
       THEN Return(p, "Panic")                     \* max().unwrap() on None
       ELSE IF current = MaxKey(migration_files)
       THEN Return(p, "Ok")
       ELSE /\ pc' = [pc EXCEPT ![p] = "up_loop"]
            /\ result' = [result EXCEPT ![p] = "none"]
            /\ todo' = [todo EXCEPT ![p] = Ascending(keys(migration_files))]
    /\ UNCHANGED <<migration_files, current>>

\* One iteration of up's loop over migration_files.iter().
up_loop(p) ==
    /\ pc[p] = "up_loop"
    /\ LET number == Head(todo[p])
           rest == Tail(todo[p])
           next == IF rest = <<>> THEN "done" ELSE "up_loop"
       IN IF UpSelects(number, start[p])
          THEN \E fault \in Faults :
                  /\ migrate(p, migration_files[number].up, fault)
                  /\ Continue(p, LastCall(p).ret, next, rest)
          ELSE /\ Continue(p, "Ok", next, rest)
               /\ UNCHANGED <<current, calls>>
    /\ UNCHANGED <<migration_files, cmd, start, out>>

NothingApplied_never(cur) == cur < 0

\* The guard of down, redo and revert: current == 0.
NothingApplied(cur) == cur = 0

DownNumbers_ascending(files, cur) ==
    Ascending({i \in keys(files) : i <= cur})

\* down's numbers: the keys <= current, sorted descending.
DownNumbers(files, cur) ==
    Descending({i \in keys(files) : i <= cur})

\* down, to the start of its loop.
down(p) ==
    /\ Invoke(p, "down")
    /\ out' = [out EXCEPT ![p] = <<>>]
    /\ IF NothingApplied(current) \/ DownNumbers(migration_files, current) = <<>>
       THEN Return(p, "Ok")
       ELSE /\ pc' = [pc EXCEPT ![p] = "down_loop"]
            /\ result' = [result EXCEPT ![p] = "none"]
            /\ todo' = [todo EXCEPT ![p] = DownNumbers(migration_files, current)]
    /\ UNCHANGED <<migration_files, current>>

\* One iteration of down's loop over numbers.
down_loop(p) ==
    /\ pc[p] = "down_loop"
    /\ LET number == Head(todo[p])
           rest == Tail(todo[p])
           next == IF rest = <<>> THEN "done" ELSE "down_loop"
       IN \E fault \in Faults :
             /\ migrate(p, migration_files[number].down, fault)
             /\ Continue(p, LastCall(p).ret, next, rest)
    /\ UNCHANGED <<migration_files, cmd, start, out>>

\* redo and revert, to their first migrate call: the guard and
\* migration_files.get(&current).unwrap().
Lookup(p, command, first) ==
    /\ Invoke(p, command)
    /\ out' = [out EXCEPT ![p] = <<>>]
    /\ IF NothingApplied(current)
       THEN Return(p, "Ok")
       ELSE IF current \notin keys(migration_files)
       THEN Return(p, "Panic")
       ELSE /\ pc' = [pc EXCEPT ![p] = first]
            /\ result' = [result EXCEPT ![p] = "none"]
            /\ todo' = [todo EXCEPT ![p] = <<>>]
    /\ UNCHANGED <<migration_files, current>>

RedoSecond_down(migration) == migration.down

\* redo's calls: migrate(down_file)?; migrate(up_file)?
RedoFirst(migration) == migration.down

RedoSecond(migration) == migration.up

redo(p) == Lookup(p, "redo", "redo_down")

redo_down(p) ==
    /\ pc[p] = "redo_down"
    /\ \E fault \in Faults :
          /\ migrate(p, RedoFirst(migration_files[start[p]]), fault)
          /\ Continue(p, LastCall(p).ret, "redo_up", <<>>)
    /\ UNCHANGED <<migration_files, cmd, start, out>>

redo_up(p) ==
    /\ pc[p] = "redo_up"
    /\ \E fault \in Faults :
          /\ migrate(p, RedoSecond(migration_files[start[p]]), fault)
          /\ Continue(p, LastCall(p).ret, "done", <<>>)
    /\ UNCHANGED <<migration_files, cmd, start, out>>

revert(p) == Lookup(p, "revert", "revert_down")

revert_down(p) ==
    /\ pc[p] = "revert_down"
    /\ \E fault \in Faults :
          /\ migrate(p, migration_files[start[p]].down, fault)
          /\ Continue(p, LastCall(p).ret, "done", <<>>)
    /\ UNCHANGED <<migration_files, cmd, start, out>>

----------------------------------------------------------------------------
\* files.rs: MigrationFileName, its text form and its parser.  A text is a
\* sequence of one-character strings.

VARIABLES
    file_name,       \* codec: a MigrationFileName handed to to_string
    text,            \* codec: the text to_string produced for it
    parsed           \* codec: what MigrationFileName::parse made of the text

codec_vars == <<file_name, text, parsed>>

\* number: u16
MaxU16 == 65535

DigitChars == <<"0", "1", "2", "3", "4", "5", "6", "7", "8", "9">>

IsDigit(c) == \E d \in 1..10 : DigitChars[d] = c

DigitValue(c) == (CHOOSE d \in 1..10 : DigitChars[d] = c) - 1

Letters ==
    {"a", "b", "c", "d", "e", "f", "g", "h", "i", "j", "k", "l", "m",
     "n", "o", "p", "q", "r", "s", "t", "u", "v", "w", "x", "y", "z",
     "A", "B", "C", "D", "E", "F", "G", "H", "I", "J", "K", "L", "M",
     "N", "O", "P", "Q", "R", "S", "T", "U", "V", "W", "X", "Y", "Z"}

\* The class [_0-9a-zA-Z] of the name group.
IsNameChar(c) == c = "_" \/ IsDigit(c) \/ c \in Letters

RECURSIVE Decimal(_)
\* The decimal digits of n, without padding.
Decimal(n) ==
    IF n < 10 THEN <<DigitChars[n + 1]>>
    ELSE Decimal(n \div 10) \o <<DigitChars[(n % 10) + 1]>>

ZeroPad_three(digits) ==
    [i \in 1..(3 - Len(digits)) |-> "0"] \o digits

\* {:04}: zeros in front up to a width of four; longer texts are kept.
ZeroPad(digits) ==
    [i \in 1..(4 - Len(digits)) |-> "0"] \o digits

\* Direction::to_string
DirectionText(direction) ==
    IF direction = "Up" THEN <<"u", "p">> ELSE <<"d", "o", "w", "n">>

DotSql == <<".", "s", "q", "l">>

\* MigrationFileName::to_string: "{:04}.{}.{}.sql"
to_string(x) ==
    ZeroPad(Decimal(x.number)) \o <<".">> \o x.name \o <<".">>
        \o DirectionText(x.direction) \o DotSql

\* The text ends with ".<direction>.sql" and has room for "NNNN." before it.
EndsWith(filename, direction) ==
    LET tail == <<".">> \o DirectionText(direction) \o DotSql
    IN /\ Len(filename) >= 5 + Len(tail)
       /\ SubSeq(filename, Len(filename) - Len(tail) + 1, Len(filename)) = tail

\* The regular expression
\* ^(?P<number>[0-9]{4})\.(?P<name>[_0-9a-zA-Z]*)\.(?P<direction>up|down)\.sql$
\* matches the text with this direction.
Matches(filename, direction) ==
    /\ EndsWith(filename, direction)
    /\ \A i \in 1..4 : IsDigit(filename[i])
    /\ filename[5] = "."
    /\ \A i \in 6..(Len(filename) - Len(DirectionText(direction)) - 5) :
          IsNameChar(filename[i])

\* The number group, through parse::<u16>.
NumberOf(filename) ==
    1000 * DigitValue(filename[1]) + 100 * DigitValue(filename[2])
        + 10 * DigitValue(filename[3]) + DigitValue(filename[4])

\* MigrationFileName::parse
parse(filename) ==
    IF \E direction \in {"Up", "Down"} : Matches(filename, direction)
    THEN LET direction == CHOOSE d \in {"Up", "Down"} : Matches(filename, d)
         IN [ok |-> TRUE,
             number |-> NumberOf(filename),
             name |-> SubSeq(filename, 6,
                             Len(filename) - Len(DirectionText(direction)) - 5),
             direction |-> direction]
    ELSE [ok |-> FALSE]

----------------------------------------------------------------------------
\* files.rs: read_migration_files

VARIABLES
    disk,                \* the directory: filename -> content of the file
    scanned,             \* the entries fs::read_dir has yielded so far
    partial_migrations,  \* number -> [up, down], each <<>> or <<[name, content]>>
    loaded,              \* <<>>, or <<r>> with r what read_migration_files returned
    created              \* <<>>, or <<r>> with r the record of a create command

files_vars == <<disk, scanned, partial_migrations, loaded, created>>

\* Largest number of files in the directory.
MaxFiles == 4

\* Largest migration number among the files the directory starts with.
MaxNumber == 3

\* What a file written by hand holds: a text that tells the files apart.
Body(filename) == <<"-", "-">> \o filename

PoolNames == {<<"a">>, <<"b">>}

\* Filenames that do not match the grammar ("_" in place of the first ".").
Junk == {<<"0", "0", "0", "1", "_", "a", ".", "u", "p", ".", "s", "q", "l">>}

\* The filenames the directory may hold at the start.
Pool ==
    {to_string([number |-> n, name |-> name, direction |-> d]) :
        n \in 0..MaxNumber, name \in PoolNames, d \in {"Up", "Down"}} \cup Junk

Side(direction) == IF direction = "Up" THEN "up" ELSE "down"

Insert_keep_first(partial, info, name_and_content) ==
    [n \in DOMAIN partial \cup {info.number} |->
        IF n # info.number THEN partial[n]
        ELSE IF n \in DOMAIN partial
        THEN IF partial[n][Side(info.direction)] = <<>>
             THEN [partial[n] EXCEPT ![Side(info.direction)] = <<name_and_content>>]
             ELSE partial[n]
        ELSE [[up |-> <<>>, down |-> <<>>]
                 EXCEPT ![Side(info.direction)] = <<name_and_content>>]]

\* partial_migrations.remove(&number), the side set in the old record or in
\* a new one, and partial_migrations.insert(number, ..).
Insert(partial, info, name_and_content) ==
    [n \in DOMAIN partial \cup {info.number} |->
        IF n # info.number THEN partial[n]
        ELSE IF n \in DOMAIN partial
        THEN [partial[n] EXCEPT ![Side(info.direction)] = <<name_and_content>>]
        ELSE [[up |-> <<>>, down |-> <<>>]
                 EXCEPT ![Side(info.direction)] = <<name_and_content>>]]

Contiguous_from_zero(index, number) == index = number

\* The test of the second loop, index counting from 0: (index + 1) == number.
Contiguous(index, number) == (index + 1) = number

PairCheck_up_only(number, partial_migration) ==
    IF partial_migration.up # <<>>
    THEN [tag |-> "Migration",
          migration |-> [up |-> partial_migration.up[1].content,
                         down |-> partial_migration.up[1].content,
                         name |-> partial_migration.up[1].name]]
    ELSE [tag |-> "IncompleteMigrationPair", number |-> number]

\* The match on the partial migration: the Migration, or the error.
PairCheck(number, partial_migration) ==
    IF partial_migration.up # <<>> /\ partial_migration.down # <<>>
    THEN LET up_migration == partial_migration.up[1]
             down_migration == partial_migration.down[1]
         IN IF up_migration.name # down_migration.name
            THEN [tag |-> "NameMismatch", number |-> number,
                  up |-> up_migration.name, down |-> down_migration.name]
            ELSE [tag |-> "Migration",
                  migration |-> [up |-> up_migration.content,
                                 down |-> down_migration.content,
                                 name |-> up_migration.name]]
    ELSE [tag |-> "IncompleteMigrationPair", number |-> number]

RECURSIVE ValidateFrom(_, _, _, _)
\* The second loop from position index (counting from 0) of the ascending
\* numbers, with the migrations inserted so far.
ValidateFrom(partial, numbers, index, migrations) ==
    IF index >= Len(numbers) THEN [tag |-> "Ok", migrations |-> migrations]
    ELSE LET number == numbers[index + 1]
         IN IF ~Contiguous(index, number)
            THEN [tag |-> "MissingMigration", index |-> index + 1]
            ELSE LET checked == PairCheck(number, partial[number])
                 IN IF checked.tag # "Migration" THEN checked
                    ELSE ValidateFrom(partial, numbers, index + 1,
                            [n \in DOMAIN migrations \cup {number} |->
                                IF n = number THEN checked.migration
                                ELSE migrations[n]])

\* for (index, (number, partial_migration)) in
\*     partial_migrations.into_iter().enumerate()
Validate(partial) ==
    ValidateFrom(partial, Ascending(DOMAIN partial), 0, <<>>)

\* One iteration of the first loop: read_dir yields entry filename, whose
\* file can be read or not.
scan(filename, readable) ==
    /\ loaded = <<>>
    /\ filename \in DOMAIN disk \ scanned
    /\ scanned' = scanned \cup {filename}
    /\ LET info == parse(filename)
       IN IF ~info.ok
          THEN UNCHANGED <<partial_migrations, loaded>>       \* continue
          ELSE IF ~readable
          THEN /\ loaded' = <<[tag |-> "FileReadFailure", filename |-> filename]>>
               /\ UNCHANGED partial_migrations
          ELSE /\ partial_migrations' =
                     Insert(partial_migrations, info,
                            [name |-> info.name, content |-> disk[filename]])
               /\ UNCHANGED loaded
    /\ UNCHANGED <<disk, created>>

\* The directory is exhausted: the second loop and the return.
validate ==
    /\ loaded = <<>>
    /\ scanned = DOMAIN disk
    /\ loaded' = <<Validate(partial_migrations)>>
    /\ UNCHANGED <<disk, scanned, partial_migrations, created>>

----------------------------------------------------------------------------
\* cmd.rs: create, and files.rs: create_migration

\* slug.replace(" ", "_")
Sanitize(slug) == [i \in 1..Len(slug) |-> IF slug[i] = " " THEN "_" ELSE slug[i]]

\* File::create: a new empty file, or the old one truncated.
FileCreate(d, filename) ==
    [f \in DOMAIN d \cup {filename} |-> IF f = filename THEN <<>> ELSE d[f]]

\* The operation of create_migration that fails, or "none".
CreateFaults == {"none", "create_up", "create_down"}

create_migration_unchecked(d, slug, number, fault) ==
    LET name == Sanitize(slug)
        up_name == to_string([number |-> number % (MaxU16 + 1), name |-> name,
                              direction |-> "Up"])
        down_name == to_string([number |-> number % (MaxU16 + 1), name |-> name,
                                direction |-> "Down"])
    IN IF fault = "create_up"
       THEN [ret |-> "FileCreateFailure", disk |-> d, up |-> up_name,
             down |-> down_name]
       ELSE IF ~parse(up_name).ok \/ ~parse(down_name).ok
       THEN [ret |-> "InvalidFilename", disk |-> FileCreate(d, up_name),
             up |-> up_name, down |-> down_name]
       ELSE IF fault = "create_down"
       THEN [ret |-> "FileCreateFailure", disk |-> FileCreate(d, up_name),
             up |-> up_name, down |-> down_name]
       ELSE [ret |-> "Ok", disk |-> FileCreate(FileCreate(d, up_name), down_name),
             up |-> up_name, down |-> down_name]

\* create_migration(path, slug, number) on directory d: what it returns, the
\* directory afterwards, and the two filenames it built.
create_migration(d, slug, number, fault) ==
    LET name == Sanitize(slug)
        up_name == to_string([number |-> number % (MaxU16 + 1), name |-> name,
                              direction |-> "Up"])
        down_name == to_string([number |-> number % (MaxU16 + 1), name |-> name,
                                direction |-> "Down"])
    IN IF ~parse(up_name).ok \/ ~parse(down_name).ok
       THEN [ret |-> "InvalidFilename", disk |-> d, up |-> up_name,
             down |-> down_name]
       ELSE IF fault = "create_up"
       THEN [ret |-> "FileCreateFailure", disk |-> d, up |-> up_name,
             down |-> down_name]
       ELSE IF fault = "create_down"
       THEN [ret |-> "FileCreateFailure", disk |-> FileCreate(d, up_name),
             up |-> up_name, down |-> down_name]
       ELSE [ret |-> "Ok", disk |-> FileCreate(FileCreate(d, up_name), down_name),
             up |-> up_name, down |-> down_name]

NextNumber_max(files) ==
    IF keys(files) = {} THEN 0 ELSE MaxKey(files)

\* migration_files.keys().cloned().max().unwrap_or(0) + 1
NextNumber(files) ==
    (IF keys(files) = {} THEN 0 ELSE MaxKey(files)) + 1

\* The slugs handed to create.
Slugs ==
    {<<"a">>, <<>>, <<"c", " ", "d">>, <<"c", "-">>, <<"c", ".", "u", "p">>}

\* cmd.rs create, on the collection the invocation has loaded.
create(slug, fault) ==
    /\ loaded # <<>> /\ loaded[1].tag = "Ok"
    /\ created = <<>>
    /\ Cardinality(DOMAIN disk) + 2 <= MaxFiles
    /\ LET number == NextNumber(loaded[1].migrations)
           r == create_migration(disk, slug, number, fault)
       IN /\ disk' = r.disk
          /\ created' = <<[slug |-> slug, number |-> number, ret |-> r.ret,
                           up |-> r.up, down |-> r.down, before |-> disk]>>
    /\ UNCHANGED <<scanned, partial_migrations, loaded>>

\* The invocation has ended; the next one reads the directory afresh.
restart ==
    /\ loaded # <<>>
    /\ scanned' = {}
    /\ partial_migrations' = <<>>
    /\ loaded' = <<>>
    /\ created' = <<>>
    /\ UNCHANGED disk

----------------------------------------------------------------------------
\* The store behind the register: what the scripts that ran have made of it.

VARIABLE
    applied          \* the migrations whose up script was the last to run

\* The effect of the call invocation p made in this step, if it made one:
\* an up script that ran applies its migration, a down script reverts it.
Track(p) ==
    IF Len(calls'[p]) = Len(calls[p]) + 1 /\ LastCall(p).executed
    THEN applied' = IF LastCall(p).content.side = "Up"
                    THEN applied \cup {LastCall(p).content.migration}
                    ELSE applied \ {LastCall(p).content.migration}
    ELSE UNCHANGED applied

all_vars == <<vars, applied, codec_vars, files_vars>>

\* The parts of the program a specification does not exercise stay as they
\* are before any invocation.
CodecIdle ==
    /\ file_name = [number |-> 0, name |-> <<>>, direction |-> "Up"]
    /\ text = <<>>
    /\ parsed = <<>>

FilesIdle ==
    /\ disk = <<>>
    /\ scanned = {}
    /\ partial_migrations = <<>>
    /\ loaded = <<>>
    /\ created = <<>>

ControllerIdle ==
    /\ migration_files = <<>>
    /\ current = 0
    /\ applied = {}
    /\ pc = [p \in Procs |-> "idle"]
    /\ cmd = [p \in Procs |-> "none"]
    /\ start = [p \in Procs |-> 0]
    /\ todo = [p \in Procs |-> <<>>]
    /\ calls = [p \in Procs |-> <<>>]
    /\ result = [p \in Procs |-> "none"]
    /\ out = [p \in Procs |-> <<>>]

----------------------------------------------------------------------------
\* The specification: invocations one after the other (the single-operator
\* command line), over a collection and a register fixed at the start.

Init ==
    /\ \E n \in 0..MaxN :
          /\ migration_files = Migrations(n)
          /\ current \in 0..n
    /\ pc = [p \in Procs |-> "idle"]
    /\ cmd = [p \in Procs |-> "none"]
    /\ start = [p \in Procs |-> 0]
    /\ todo = [p \in Procs |-> <<>>]
    /\ calls = [p \in Procs |-> <<>>]
    /\ result = [p \in Procs |-> "none"]
    /\ out = [p \in Procs |-> <<>>]

\* The process of a finished command ends; its slot is free again.
exit(p) ==
    /\ pc[p] = "done"
    /\ pc' = [pc EXCEPT ![p] = "idle"]
    /\ cmd' = [cmd EXCEPT ![p] = "none"]
    /\ start' = [start EXCEPT ![p] = 0]
    /\ calls' = [calls EXCEPT ![p] = <<>>]
    /\ result' = [result EXCEPT ![p] = "none"]
    /\ out' = [out EXCEPT ![p] = <<>>]
    /\ UNCHANGED <<migration_files, current, todo>>

\* No other invocation is in progress.
Alone(p) == \A q \in Procs \ {p} : pc[q] = "idle"

\* Nothing outside the controller moves in a controller step.
Elsewhere == UNCHANGED <<codec_vars, files_vars>>

Next ==
    \/ \E p \in Procs : Alone(p) /\ status(p) /\ UNCHANGED applied /\ Elsewhere
    \/ \E p \in Procs : Alone(p) /\ up(p) /\ UNCHANGED applied /\ Elsewhere
    \/ \E p \in Procs : Alone(p) /\ down(p) /\ UNCHANGED applied /\ Elsewhere
    \/ \E p \in Procs : Alone(p) /\ redo(p) /\ UNCHANGED applied /\ Elsewhere
    \/ \E p \in Procs : Alone(p) /\ revert(p) /\ UNCHANGED applied /\ Elsewhere
    \/ \E p \in Procs : up_loop(p) /\ Track(p) /\ Elsewhere
    \/ \E p \in Procs : down_loop(p) /\ Track(p) /\ Elsewhere
    \/ \E p \in Procs : redo_down(p) /\ Track(p) /\ Elsewhere
    \/ \E p \in Procs : redo_up(p) /\ Track(p) /\ Elsewhere
    \/ \E p \in Procs : revert_down(p) /\ Track(p) /\ Elsewhere
    \/ \E p \in Procs : exit(p) /\ UNCHANGED applied /\ Elsewhere

\* At the start the store holds what the register says: migrations 1..current.
StoreInit == applied = 1..current

\* The controller's start, with the rest of the program at rest.
ControllerInit == Init /\ StoreInit /\ CodecIdle /\ FilesIdle

Spec == ControllerInit /\ [][Next]_all_vars

----------------------------------------------------------------------------
\* The specification of concurrent invocations: nothing keeps a second
\* command from starting while another is between two of its steps.

\* The two invocations that run at once.
ConcProcs == {1, 2}

ConcNext ==
    \/ \E p \in ConcProcs : status(p) /\ UNCHANGED applied /\ Elsewhere
    \/ \E p \in ConcProcs : up(p) /\ UNCHANGED applied /\ Elsewhere
    \/ \E p \in ConcProcs : down(p) /\ UNCHANGED applied /\ Elsewhere
    \/ \E p \in ConcProcs : redo(p) /\ UNCHANGED applied /\ Elsewhere
    \/ \E p \in ConcProcs : revert(p) /\ UNCHANGED applied /\ Elsewhere
    \/ \E p \in ConcProcs : up_loop(p) /\ Track(p) /\ Elsewhere
    \/ \E p \in ConcProcs : down_loop(p) /\ Track(p) /\ Elsewhere
    \/ \E p \in ConcProcs : redo_down(p) /\ Track(p) /\ Elsewhere
    \/ \E p \in ConcProcs : redo_up(p) /\ Track(p) /\ Elsewhere
    \/ \E p \in ConcProcs : revert_down(p) /\ Track(p) /\ Elsewhere
    \/ \E p \in ConcProcs : exit(p) /\ UNCHANGED applied /\ Elsewhere

ConcSpec == ControllerInit /\ [][ConcNext]_all_vars

----------------------------------------------------------------------------
\* The specification of the filename codec: to_string, then parse, of a
\* MigrationFileName drawn from CodecInputs.

CodecNumbers == {0, 1, 9, 10, 99, 100, 999, 1000, 9999, 10000, 12345, MaxU16}

CodecNames ==
    {<<>>, <<"a">>, <<"_">>, <<"A", "z", "0", "9", "_">>, <<"u", "p">>,
     <<"a", " ", "b">>, <<"a", ".", "b">>, <<"a", "-">>}

CodecInputs ==
    [number : CodecNumbers, name : CodecNames, direction : {"Up", "Down"}]

format ==
    /\ text = <<>>
    /\ text' = to_string(file_name)
    /\ UNCHANGED <<file_name, parsed>>

parse_text ==
    /\ text # <<>> /\ parsed = <<>>
    /\ parsed' = <<parse(text)>>
    /\ UNCHANGED <<file_name, text>>

CodecInit ==
    /\ file_name \in CodecInputs
    /\ text = <<>>
    /\ parsed = <<>>
    /\ ControllerIdle /\ FilesIdle

CodecNext ==
    \/ format /\ UNCHANGED <<vars, applied, files_vars>>
    \/ parse_text /\ UNCHANGED <<vars, applied, files_vars>>

CodecSpec == CodecInit /\ [][CodecNext]_all_vars

----------------------------------------------------------------------------
\* The specification of the loader and of create: invocations, one after the
\* other, on a directory that starts with at most MaxFiles files of Pool.

Directories ==
    {[f \in S |-> Body(f)] : S \in {T \in SUBSET Pool : Cardinality(T) <= MaxFiles}}

FilesInit ==
    /\ disk \in Directories
    /\ scanned = {}
    /\ partial_migrations = <<>>
    /\ loaded = <<>>
    /\ created = <<>>
    /\ ControllerIdle /\ CodecIdle

FilesNext ==
    \/ \E f \in DOMAIN disk, readable \in BOOLEAN :
          scan(f, readable) /\ UNCHANGED <<vars, applied, codec_vars>>
    \/ validate /\ UNCHANGED <<vars, applied, codec_vars>>
    \/ \E slug \in Slugs, fault \in CreateFaults :
          create(slug, fault) /\ UNCHANGED <<vars, applied, codec_vars>>
    \/ restart /\ UNCHANGED <<vars, applied, codec_vars>>

FilesSpec == FilesInit /\ [][FilesNext]_all_vars

----------------------------------------------------------------------------
\* Vocabulary of the properties

\* Invocation p has returned (or aborted) from command.
Done(p, command) == pc[p] = "done" /\ cmd[p] = command

\* Every migrate call of the sequence returned Ok.
AllOk(s) == \A i \in 1..Len(s) : s[i].ret = "Ok"

\* Call c ran the script of file with the resulting version number.
Ran(c, file, number) == c.content = file.content /\ c.number = number

\* Invocation p made a migrate call in this step.
NewCall(p) == Len(calls'[p]) = Len(calls[p]) + 1

\* The register as the successful calls before the i-th of p left it.
LastSet(p, i) == IF i = 1 THEN start[p] ELSE calls[p][i - 1].number

----------------------------------------------------------------------------
\* C1: up from current < N, every migrate call succeeding, calls migrate
\* once for each of current+1, ..., N in ascending order, each with that
\* migration's up script and its number as resulting version, and returns
\* Ok with the register at N.
C1_UpRunsPendingAscending ==
    \A p \in Procs :
        (cmd[p] = "up" /\ start[p] < N /\ AllOk(calls[p])) =>
            /\ Len(calls[p]) <= N - start[p]
            /\ \A i \in 1..Len(calls[p]) :
                  Ran(calls[p][i], migration_files[start[p] + i].up, start[p] + i)
            /\ pc[p] = "done" =>
                  /\ Len(calls[p]) = N - start[p]
                  /\ current = N
                  /\ result[p] = "Ok"

C1_Witness ==
    \E p \in Procs :
        /\ Done(p, "up") /\ start[p] = 1 /\ N = 3
        /\ AllOk(calls[p]) /\ Len(calls[p]) = 2 /\ current = 3

\* C2: down from current > 0, every migrate call succeeding, calls migrate
\* once for each of current, current-1, ..., 1 in descending order, each with
\* that migration's down script and number-1 as resulting version, and
\* returns Ok with the register at 0.
C2_DownRunsAppliedDescending ==
    \A p \in Procs :
        (cmd[p] = "down" /\ 0 < start[p] /\ start[p] <= N /\ AllOk(calls[p])) =>
            /\ Len(calls[p]) <= start[p]
            /\ \A i \in 1..Len(calls[p]) :
                  Ran(calls[p][i], migration_files[start[p] - i + 1].down,
                      start[p] - i)
            /\ pc[p] = "done" =>
                  /\ Len(calls[p]) = start[p]
                  /\ current = 0
                  /\ result[p] = "Ok"

C2_Witness ==
    \E p \in Procs :
        /\ Done(p, "down") /\ start[p] = 3
        /\ AllOk(calls[p]) /\ Len(calls[p]) = 3 /\ current = 0

\* C3: up with current = N makes no migrate call, leaves the register as it
\* was and returns Ok, for every N >= 0, the empty collection included.
C3_UpToDateIsNoOp ==
    \A p \in Procs :
        (Done(p, "up") /\ start[p] = N) =>
            /\ result[p] = "Ok"
            /\ calls[p] = <<>>
            /\ current = start[p]

\* C4: with the register at 0, down, redo and revert each return Ok without
\* a migrate call, and the register is still 0.
C4_NothingToUndoAtZero ==
    \A p \in Procs :
        (cmd[p] \in {"down", "redo", "revert"} /\ start[p] = 0) =>
            /\ pc[p] = "done"
            /\ result[p] = "Ok"
            /\ calls[p] = <<>>
            /\ current = 0

C4_Witness ==
    \E p \in Procs : Done(p, "redo") /\ start[p] = 0 /\ N >= 1

\* C5: redo from current = c > 0, both migrate calls succeeding, makes
\* exactly two calls: the down script of c with resulting version c-1, then
\* the up script of c with resulting version c; it returns Ok with the
\* register at c.
C5_RedoDownThenUp ==
    \A p \in Procs :
        (cmd[p] = "redo" /\ 0 < start[p] /\ start[p] <= N /\ AllOk(calls[p])) =>
            LET c == start[p]
            IN /\ Len(calls[p]) <= 2
               /\ Len(calls[p]) >= 1 =>
                     Ran(calls[p][1], migration_files[c].down, c - 1)
               /\ Len(calls[p]) = 2 =>
                     Ran(calls[p][2], migration_files[c].up, c)
               /\ pc[p] = "done" =>
                     /\ Len(calls[p]) = 2
                     /\ current = c
                     /\ result[p] = "Ok"

C5_Witness ==
    \E p \in Procs :
        /\ Done(p, "redo") /\ start[p] = 2
        /\ AllOk(calls[p]) /\ Len(calls[p]) = 2 /\ current = 2

\* C6: revert from current = c > 0, the migrate call succeeding, makes
\* exactly one call, the down script of c with resulting version c-1, and
\* returns with the register at c-1.
C6_RevertOneStep ==
    \A p \in Procs :
        (cmd[p] = "revert" /\ 0 < start[p] /\ start[p] <= N /\ AllOk(calls[p])) =>
            LET c == start[p]
            IN /\ Len(calls[p]) <= 1
               /\ Len(calls[p]) = 1 =>
                     Ran(calls[p][1], migration_files[c].down, c - 1)
               /\ pc[p] = "done" =>
                     /\ Len(calls[p]) = 1
                     /\ current = c - 1
                     /\ result[p] = "Ok"

C6_Witness ==
    \E p \in Procs :
        /\ Done(p, "revert") /\ start[p] = 2
        /\ AllOk(calls[p]) /\ Len(calls[p]) = 1 /\ current = 1

\* C7: in up and down, the first migrate call that does not return Ok, for
\* migration k, is the last call of the command; the command ends with that
\* call's failure, and the register holds what the last successful step set
\* (the starting value if there was none): k-1 in up, k in down.
C7_UpDownStopAtFirstFailure ==
    \A p \in Procs :
        cmd[p] \in {"up", "down"} =>
            \A i \in 1..Len(calls[p]) :
                calls[p][i].ret # "Ok" =>
                    LET k == calls[p][i].content.migration
                    IN /\ i = Len(calls[p])
                       /\ pc[p] = "done"
                       /\ result[p] = calls[p][i].ret
                       /\ current = LastSet(p, i)
                       /\ current = IF cmd[p] = "up" THEN k - 1 ELSE k

C7_Witness ==
    \E p \in Procs :
        /\ Done(p, "up") /\ start[p] = 0 /\ N = 3
        /\ Len(calls[p]) = 2
        /\ calls[p][1].ret = "Ok" /\ calls[p][2].ret = "Err"
        /\ result[p] = "Err" /\ current = 1

\* C8: in redo from current = c > 0, a failing down half is the only call
\* and the register stays at c; a failing up half after a successful down
\* half ends redo with that failure and the register at c-1.
C8_RedoFailure ==
    \A p \in Procs :
        (cmd[p] = "redo" /\ start[p] > 0 /\ Len(calls[p]) >= 1) =>
            LET c == start[p]
            IN /\ calls[p][1].ret # "Ok" =>
                     /\ Len(calls[p]) = 1
                     /\ pc[p] = "done"
                     /\ result[p] = calls[p][1].ret
                     /\ current = c
               /\ (Len(calls[p]) = 2 /\ calls[p][2].ret # "Ok") =>
                     /\ calls[p][1].ret = "Ok"
                     /\ pc[p] = "done"
                     /\ result[p] = calls[p][2].ret
                     /\ current = c - 1

C8_Witness ==
    \E p \in Procs :
        /\ Done(p, "redo") /\ start[p] = 2 /\ Len(calls[p]) = 2
        /\ calls[p][1].ret = "Ok" /\ calls[p][2].ret = "Err"
        /\ result[p] = "Err" /\ current = 1

\* C9: the register stays within 0..N, and a step changes it only by a
\* migrate call that returned Ok, which moves it by exactly one: up by one
\* for an up script, down by one for a down script.
C9_RegisterStepsByOne ==
    /\ [](current \in 0..N)
    /\ [][/\ current' # current =>
               \E p \in Procs : NewCall(p) /\ LastCall(p).ret = "Ok"
          /\ \A p \in Procs :
               (NewCall(p) /\ LastCall(p).ret = "Ok") =>
                  /\ current' = LastCall(p).number
                  /\ LastCall(p).content.side = "Up" => current' = current + 1
                  /\ LastCall(p).content.side = "Down" => current' = current - 1
         ]_vars

C9_Witness ==
    \E p \in Procs :
        /\ cmd[p] = "down" /\ start[p] = 3 /\ Len(calls[p]) = 2
        /\ AllOk(calls[p]) /\ current = 1

\* C10: Driver::migrate sets the register to the resulting version only when
\* the script has executed successfully; when the script fails the call
\* returns Err and the register keeps its value.
C10_DriverSetsOnlyAfterSuccess ==
    [][\A p \in Procs :
          NewCall(p) =>
              /\ LastCall(p).fault = "query" =>
                    /\ LastCall(p).ret = "Err"
                    /\ ~LastCall(p).executed
                    /\ current' = current
              /\ current' # current =>
                    LastCall(p).executed /\ current' = LastCall(p).number
              /\ LastCall(p).ret = "Ok" =>
                    LastCall(p).executed /\ current' = LastCall(p).number
      ]_vars

C10_Witness ==
    \E p \in Procs :
        /\ Len(calls[p]) = 1 /\ calls[p][1].fault = "query"
        /\ calls[p][1].ret = "Err" /\ current = start[p]
        /\ calls[p][1].number # current

----------------------------------------------------------------------------
\* Vocabulary of the loader's properties

\* The entries of a set of filenames that match the grammar.
Matching(S) == {f \in S : parse(f).ok}

\* The migration numbers among them.
Numbers(S) == {parse(f).number : f \in Matching(S)}

\* The files of S for side direction of migration n.
SideFiles(S, n, direction) ==
    {f \in Matching(S) : parse(f).number = n /\ parse(f).direction = direction}

\* No two entries of S parse to the same number and direction.
NoDuplicates(S) ==
    \A f, g \in Matching(S) :
        (parse(f).number = parse(g).number
            /\ parse(f).direction = parse(g).direction) => f = g

\* The smallest index (from 1) whose number in ascending order is not it.
FirstGap(nums) ==
    CHOOSE i \in 1..Cardinality(nums) :
        /\ Ascending(nums)[i] # i
        /\ \A j \in 1..(i - 1) : Ascending(nums)[j] = j

HasGap(nums) == nums # 1..Cardinality(nums)

\* read_migration_files has returned, on the directory as it still is, and
\* every file it opened could be read.
Returned ==
    /\ loaded # <<>> /\ created = <<>>
    /\ loaded[1].tag # "FileReadFailure"

\* Migration n of the grouping lacks a side, or its two names differ.
Incomplete(n) ==
    partial_migrations[n].up = <<>> \/ partial_migrations[n].down = <<>>

Mismatched(n) ==
    /\ ~Incomplete(n)
    /\ partial_migrations[n].up[1].name # partial_migrations[n].down[1].name

Defective(n) == Incomplete(n) \/ Mismatched(n)

\* The grouping of the entries S when no two share a number and direction.
GroupSide(S, n, direction) ==
    IF SideFiles(S, n, direction) = {} THEN <<>>
    ELSE LET f == CHOOSE g \in SideFiles(S, n, direction) : TRUE
         IN <<[name |-> parse(f).name, content |-> disk[f]]>>

Group(S) ==
    [n \in Numbers(S) |->
        [up |-> GroupSide(S, n, "Up"), down |-> GroupSide(S, n, "Down")]]

----------------------------------------------------------------------------
\* C11: when the parsed numbers in ascending order are not exactly 1..N, the
\* loader fails with MissingMigration(i), i the smallest index whose i-th
\* smallest number is not i.
C11_GapGivesMissingMigration ==
    (Returned /\ HasGap(Numbers(scanned))) =>
        loaded[1] = [tag |-> "MissingMigration",
                     index |-> FirstGap(Numbers(scanned))]

\* The error the pair check gives for a defective number n of the grouping.
PairError(n) ==
    IF Incomplete(n) THEN [tag |-> "IncompleteMigrationPair", number |-> n]
    ELSE [tag |-> "NameMismatch", number |-> n,
          up |-> partial_migrations[n].up[1].name,
          down |-> partial_migrations[n].down[1].name]

\* The defective numbers before the first gap: those among 1..i-1.
DefectiveBelowGap ==
    {n \in 1..(FirstGap(Numbers(scanned)) - 1) : Defective(n)}

\* C11, amended: when the parsed numbers are not exactly 1..N the load
\* fails; it fails with MissingMigration(i), i the smallest index whose i-th
\* smallest number is not i, unless one of the numbers 1..i-1 lacks a side
\* or has two names, and then with that number's error and not with
\* MissingMigration.
C11_GapFailsTheLoad ==
    (Returned /\ HasGap(Numbers(scanned))) =>
        /\ loaded[1].tag # "Ok"
        /\ DefectiveBelowGap = {} =>
              loaded[1] = [tag |-> "MissingMigration",
                           index |-> FirstGap(Numbers(scanned))]
        /\ DefectiveBelowGap # {} => loaded[1].tag # "MissingMigration"

C11_Witness ==
    /\ Returned
    /\ Numbers(scanned) = {1, 3}
    /\ ~Defective(1)
    /\ loaded[1] = [tag |-> "MissingMigration", index |-> 2]

\* C12: when the parsed numbers are exactly 1..N, the loader fails at the
\* first defective number n in ascending order, with IncompleteMigrationPair(n)
\* if a side is missing and otherwise with NameMismatch(n, upName, downName);
\* it returns a collection only when no number is defective.
C12_FirstDefectiveNumberFails ==
    (Returned /\ ~HasGap(Numbers(scanned))) =>
        LET bad == {n \in Numbers(scanned) : Defective(n)}
        IN IF bad = {}
           THEN loaded[1].tag = "Ok"
           ELSE LET n == CHOOSE x \in bad : \A y \in bad : x <= y
                IN /\ SideFiles(scanned, n, "Up") = {}
                        \/ SideFiles(scanned, n, "Down") = {}
                      => loaded[1] = [tag |-> "IncompleteMigrationPair", number |-> n]
                   /\ (SideFiles(scanned, n, "Up") # {}
                        /\ SideFiles(scanned, n, "Down") # {})
                      => loaded[1] =
                            [tag |-> "NameMismatch", number |-> n,
                             up |-> partial_migrations[n].up[1].name,
                             down |-> partial_migrations[n].down[1].name]

C12_Witness ==
    /\ Returned
    /\ Numbers(scanned) = {1, 2}
    /\ ~Defective(1)
    /\ loaded[1].tag = "NameMismatch" /\ loaded[1].number = 2
    /\ loaded[1].up = <<"a">> /\ loaded[1].down = <<"b">>

C14_CreateAllocatesNextNumber ==
    created # <<>> =>
        LET c == created[1]
            number == Cardinality(DOMAIN loaded[1].migrations) + 1
            x == [ok |-> TRUE, number |-> number, name |-> Sanitize(c.slug),
                  direction |-> "Up"]
        IN /\ c.number = number
           /\ c.ret = "Ok" =>
                 /\ DOMAIN disk \ DOMAIN c.before = {c.up, c.down}
                 /\ c.up # c.down
                 /\ parse(c.up) = x
                 /\ parse(c.down) = [x EXCEPT !.direction = "Down"]
                 /\ disk[c.up] = <<>> /\ disk[c.down] = <<>>
                 /\ \A f \in DOMAIN c.before : disk[f] = c.before[f]

C14_Witness ==
    /\ created # <<>> /\ created[1].ret = "Ok"
    /\ created[1].number = 2 /\ created[1].slug = <<"c", " ", "d">>
    /\ Cardinality(DOMAIN disk) = 4

\* C15: create replaces the spaces of the slug by underscores; if a filename
\* it then builds does not parse, which is when the slug holds a character
\* outside [A-Za-z0-9_ ], it fails with the directory as it was.
C15_CreateRejectsBadSlug ==
    created # <<>> =>
        LET c == created[1]
            name == Sanitize(c.slug)
        IN /\ Len(name) = Len(c.slug)
           /\ \A i \in 1..Len(name) :
                 name[i] = IF c.slug[i] = " " THEN "_" ELSE c.slug[i]
           /\ (~parse(c.up).ok \/ ~parse(c.down).ok) <=>
                 (\E i \in 1..Len(c.slug) :
                     ~IsNameChar(c.slug[i]) /\ c.slug[i] # " ")
           /\ (~parse(c.up).ok \/ ~parse(c.down).ok) =>
                 /\ c.ret = "InvalidFilename"
                 /\ disk = c.before

C15_Witness ==
    /\ created # <<>> /\ created[1].slug = <<"c", "-">>
    /\ created[1].ret = "InvalidFilename"
    /\ disk = created[1].before /\ Cardinality(DOMAIN disk) = 2

\* C16: for a MigrationFileName with number in 0..9999 and a name over
\* [A-Za-z0-9_], parse(to_string(x)) succeeds with the same number, name
\* and direction, and to_string writes the number as exactly four digits.
C16_ParseInvertsFormat ==
    (file_name.number <= 9999
        /\ \A i \in 1..Len(file_name.name) : IsNameChar(file_name.name[i])) =>
        /\ text # <<>> =>
              /\ \A i \in 1..4 : IsDigit(text[i])
              /\ text[5] = "."
              /\ NumberOf(text) = file_name.number
        /\ parsed # <<>> =>
              parsed[1] = [ok |-> TRUE, number |-> file_name.number,
                           name |-> file_name.name,
                           direction |-> file_name.direction]

C16_Witness ==
    /\ parsed # <<>> /\ parsed[1].ok
    /\ file_name.number = 9999 /\ file_name.name = <<>>
    /\ file_name.direction = "Down"

\* C17: for a number >= 10000 to_string writes all its digits, more than
\* four, and parse of that text gives the same number back.
C17_LargeNumbersRoundTrip ==
    (file_name.number >= 10000
        /\ \A i \in 1..Len(file_name.name) : IsNameChar(file_name.name[i])) =>
        /\ text # <<>> =>
              /\ Len(Decimal(file_name.number)) > 4
              /\ SubSeq(text, 1, Len(Decimal(file_name.number)))
                    = Decimal(file_name.number)
        /\ parsed # <<>> =>
              parsed[1].ok /\ parsed[1].number = file_name.number

\* C18: contiguity of all the numbers is checked before any pair: with a gap
\* at index i the load fails with MissingMigration(i) even when a number
\* below the gap lacks a side or has two names.
C18_ContiguityBeforePairs ==
    (/\ Returned
     /\ HasGap(Numbers(scanned))
     /\ \E n \in 1..(FirstGap(Numbers(scanned)) - 1) : Defective(n)) =>
        /\ loaded[1].tag = "MissingMigration"
        /\ loaded[1].index = FirstGap(Numbers(scanned))

\* C18, amended: the loader makes one ascending pass and checks, number by
\* number, contiguity and then the pair: with a gap at index i and a
\* defective number below it, the load fails with the error of the smallest
\* such number (number 1 with only an up file plus a complete number 3
\* fails with IncompleteMigrationPair(1)).
C18_PairsBelowTheGapComeFirst ==
    (Returned /\ HasGap(Numbers(scanned)) /\ DefectiveBelowGap # {}) =>
        LET n == CHOOSE x \in DefectiveBelowGap :
                    \A y \in DefectiveBelowGap : x <= y
        IN loaded[1] = PairError(n)

C18_Witness ==
    /\ Returned
    /\ Numbers(scanned) = {1, 3}
    /\ SideFiles(scanned, 1, "Down") = {}
    /\ ~Defective(3)
    /\ loaded[1] = [tag |-> "IncompleteMigrationPair", number |-> 1]

\* C19: a second entry for the same number and direction does not fail the
\* load; the entry read later replaces the one read before in the grouping.
\* When no two entries share a number and direction, the grouping and the
\* result are the same whatever the order of the entries.
C19_LaterEntryReplacesEarlier ==
    /\ [][\A f \in DOMAIN disk :
            (f \in scanned' \ scanned /\ parse(f).ok /\ loaded' = <<>>) =>
                LET info == parse(f)
                    side == Side(info.direction)
                    other == IF side = "up" THEN "down" ELSE "up"
                IN /\ partial_migrations'[info.number][side]
                        = <<[name |-> info.name, content |-> disk[f]]>>
                   /\ partial_migrations'[info.number][other]
                        = IF info.number \in DOMAIN partial_migrations
                          THEN partial_migrations[info.number][other]
                          ELSE <<>>
                   /\ \A n \in DOMAIN partial_migrations :
                        n # info.number =>
                            partial_migrations'[n] = partial_migrations[n]
         ]_all_vars
    /\ []((created = <<>> /\ NoDuplicates(scanned)
            /\ (loaded # <<>> => loaded[1].tag # "FileReadFailure")) =>
            /\ partial_migrations = Group(scanned)
            /\ loaded # <<>> => loaded[1] = Validate(Group(scanned)))

C19_Witness ==
    /\ Returned /\ loaded[1].tag = "Ok"
    /\ Cardinality(SideFiles(scanned, 1, "Up")) = 2
    /\ loaded[1].migrations[1].name = <<"a">>
    /\ loaded[1].migrations[1].up
          = Body(to_string([number |-> 1, name |-> <<"a">>, direction |-> "Up"]))

----------------------------------------------------------------------------
\* C20: a command plans its migrate calls from the register it read at its
\* start, whatever other invocations do to the register meanwhile: the i-th
\* call of an up is for migration start+i, the i-th call of a down for
\* migration start-i+1.  So two up invocations that read the same register
\* and complete have each run every up script above it, and an up and a
\* down at once can leave the register at odds with the scripts applied.
C20_PlansFromSnapshot ==
    \A p \in Procs :
        /\ cmd[p] = "up" =>
              /\ \A i \in 1..Len(calls[p]) :
                    Ran(calls[p][i], migration_files[start[p] + i].up,
                        start[p] + i)
              /\ (pc[p] = "done" /\ result[p] = "Ok" /\ start[p] < N) =>
                    Len(calls[p]) = N - start[p]
        /\ cmd[p] = "down" =>
              /\ \A i \in 1..Len(calls[p]) :
                    Ran(calls[p][i], migration_files[start[p] - i + 1].down,
                        start[p] - i)
              /\ (pc[p] = "done" /\ result[p] = "Ok") =>
                    Len(calls[p]) = start[p]

C20_Witness ==
    /\ Done(1, "up") /\ Done(2, "down")
    /\ start[1] = 1 /\ start[2] = 1 /\ N = 3
    /\ result[1] = "Ok" /\ result[2] = "Ok"
    /\ current = 3
    /\ applied = {2, 3}

====
